---- MODULE Spec2Model ----
(***************************************************************************)
(* A model of docs/combine_docs.py: the script that merges the doc builds  *)
(* of the Optimum subpackages into the doc build of Optimum.               *)
(*                                                                         *)
(* Strings that are only compared and concatenated (subpackage names, the  *)
(* `local` references, path segments) are TLA+ strings.  A title is a      *)
(* sequence of one-character strings, because str.split looks inside it.   *)
(* A path is the sequence of its segments (pathlib's `parts`).             *)
(* A TOC entry is a record; `"local" in file` is "local" \in DOMAIN file.  *)
(***************************************************************************)
EXTENDS Naturals, Sequences, FiniteSets, TLC

VARIABLES
    subpackages,     \* args.subpackages
    version,         \* args.version
    docs,            \* the doc builds on disk: directory name -> [html, toctree]
    base_toc,        \* main's base_toc, mutated in place
    toc_file,        \* the contents of optimum-doc-build/**/_toctree.yml on disk
    toc0,            \* history: what base_toc was loaded as
    subpackage_toc,  \* main's subpackage_toc, mutated in place
    site,            \* the files copied so far: a set of [src, dst]
    opened,          \* history: the directories whose _toctree.yml was opened
    i,               \* the loop's position in args.subpackages[::-1], from 1
    pc,              \* where main is
    error            \* the exception that ended the run, "" if none

vars == <<subpackages, version, docs, base_toc, toc_file, toc0, subpackage_toc,
          site, opened, i, pc, error>>

(***************************************************************************)
(* Bounds of the model.                                                    *)
(***************************************************************************)
MaxSubs == 3      \* --subpackages holds at most this many names
MaxNodes == 4     \* a drawn TOC Tree holds at most this many entries
MaxDirs == 4      \* a drawn HTML path has at most this many directories below its root
MaxFiles == 2     \* a drawn doc build holds at most this many HTML files
MaxPieces == 3    \* a drawn title is made of at most this many pieces

(***************************************************************************)
(* Python's builtins, as far as the script uses them.                      *)
(***************************************************************************)
\* Insert gone wrong: list[index] = x, which overwrites the entry that is there
Insert_overwrite(list, index, x) ==
    IF index + 1 <= Len(list) THEN [list EXCEPT ![index + 1] = x] ELSE Append(list, x)

\* list.insert(index, x) for index >= 0: an index past the end appends.
Insert(list, index, x) ==
    LET at == IF index < Len(list) THEN index ELSE Len(list)
    IN  SubSeq(list, 1, at) \o <<x>> \o SubSeq(list, at + 1, Len(list))

\* str.find(sep, start), 1-based; 0 when sep does not occur at or after start.
RECURSIVE Find(_, _, _)
Find(s, sep, start) ==
    IF start + Len(sep) - 1 > Len(s) THEN 0
    ELSE IF SubSeq(s, start, start + Len(sep) - 1) = sep THEN start
    ELSE Find(s, sep, start + 1)

\* str.split(sep): the pieces between the occurrences of sep, found left to right.
RECURSIVE Split(_, _)
Split(s, sep) ==
    LET at == Find(s, sep, 1)
    IN  IF at = 0 THEN <<s>>
        ELSE <<SubSeq(s, 1, at - 1)>> \o Split(SubSeq(s, at + Len(sep), Len(s)), sep)

\* str(path): the empty path prints as "."
PathStr(parts) == IF parts = <<>> THEN <<".">> ELSE parts

\* Path(string): pathlib drops the "." segments of what it is given.
Path(segments) == SelectSeq(segments, LAMBDA x : x # ".")

(***************************************************************************)
(* rename_subpackage_toc.  It mutates toc in place, so when it raises, the *)
(* entries before the failing one are already rewritten: val is toc as the *)
(* call left it, err the exception ("" if it returned).                    *)
(***************************************************************************)
RECURSIVE rename_subpackage_toc(_, _)
RECURSIVE RenameItems(_, _, _)
RECURSIVE RenameFiles(_, _, _)

\* file["local"] = f"{subpackage}/" + file["local"]
PrefixLocal(subpackage, file) ==
    [file EXCEPT !.local = subpackage \o "/" \o file.local]

\* for file in item["sections"], from the k-th file on
RenameFiles(subpackage, files, k) ==
    IF k > Len(files) THEN [err |-> "", val |-> files]
    ELSE LET file == files[k]
         IN  IF "local" \in DOMAIN file
             THEN RenameFiles(subpackage,
                              [files EXCEPT ![k] = PrefixLocal(subpackage, file)], k + 1)
             ELSE LET r == rename_subpackage_toc(subpackage, <<file>>)
                      done == [files EXCEPT ![k] = r.val[1]]
                  IN  IF r.err # "" THEN [err |-> r.err, val |-> done]
                      ELSE RenameFiles(subpackage, done, k + 1)

\* for item in toc, from the k-th item on
RenameItems(subpackage, toc, k) ==
    IF k > Len(toc) THEN [err |-> "", val |-> toc]
    ELSE LET item == toc[k]
         IN  IF "sections" \notin DOMAIN item
             THEN [err |-> "KeyError", val |-> toc]
             ELSE LET r == RenameFiles(subpackage, item.sections, 1)
                      done == [toc EXCEPT ![k] = [item EXCEPT !.sections = r.val]]
                  IN  IF r.err # "" THEN [err |-> r.err, val |-> done]
                      ELSE RenameItems(subpackage, done, k + 1)

rename_subpackage_toc(subpackage, toc) == RenameItems(subpackage, toc, 1)

(***************************************************************************)
(* rename_copy_subpackage_html_paths.                                      *)
(***************************************************************************)
language_folder_level == 3

\* shutil.copyfile(src, dst): an existing dst is overwritten.
CopyFile(files, src, dst) ==
    {f \in files : f.dst # dst} \cup {[src |-> src, dst |-> dst]}

\* NewPathInOptimum gone wrong: the language folder taken one level too high
NewPathInOptimum_level(subpackage, html_path, optimum_path, ver) ==
    Path(<<optimum_path, "optimum", ver, html_path[language_folder_level], subpackage>>
         \o PathStr(SubSeq(html_path, language_folder_level + 1, Len(html_path))))

\* new_path_in_optimum of one html_path (parts is 0-based in Python, 1-based here)
NewPathInOptimum(subpackage, html_path, optimum_path, ver) ==
    LET language_folder == html_path[language_folder_level + 1]
        relative_path_from_language_folder ==
            SubSeq(html_path, language_folder_level + 2, Len(html_path))
    IN  Path(<<optimum_path, "optimum", ver, language_folder, subpackage>>
             \o PathStr(relative_path_from_language_folder))

\* for html_path in subpackage_html_paths, from the k-th on; files is the site so far
RECURSIVE CopyHtmlPaths(_, _, _, _, _, _)
CopyHtmlPaths(subpackage, html_paths, optimum_path, ver, files, k) ==
    IF k > Len(html_paths) THEN [err |-> "", val |-> files]
    ELSE LET html_path == html_paths[k]
         IN  IF Len(html_path) < language_folder_level + 1
             THEN [err |-> "IndexError", val |-> files]
             ELSE CopyHtmlPaths(subpackage, html_paths, optimum_path, ver,
                      CopyFile(files, html_path,
                               NewPathInOptimum(subpackage, html_path, optimum_path, ver)),
                      k + 1)

\* subpackage_path.rglob("*.html"), then the loop; fs is the doc builds on disk
rename_copy_subpackage_html_paths(subpackage, subpackage_path, optimum_path, ver, fs, files) ==
    CopyHtmlPaths(subpackage, fs[subpackage_path].html, optimum_path, ver, files, 1)

(***************************************************************************)
(* add_neuron_doc.                                                         *)
(***************************************************************************)
\* the title's first character, the emoji U+1F917, is written by its code point
NeuronEntry ==
    [sections |-> << [local |-> "docs/optimum-neuron/index",
                      title |-> <<"U+1F917", " ", "O", "p", "t", "i", "m", "u", "m", " ",
                                  "N", "e", "u", "r", "o", "n">>] >>,
     title |-> <<"A", "W", "S", " ", "T", "r", "a", "i", "n", "i", "u", "m", "/",
                 "I", "n", "f", "e", "r", "e", "n", "t", "i", "a">>,
     isExpanded |-> FALSE]

\* add_neuron_doc gone wrong: the entry put in front
add_neuron_doc_front(toc) == Insert(toc, 0, NeuronEntry)

add_neuron_doc(toc) == Insert(toc, 1, NeuronEntry)

(***************************************************************************)
(* main's own pieces.                                                      *)
(***************************************************************************)
OptimumPath == "optimum-doc-build"

\* Path(f"{subpackage}-doc-build")
SubpackagePath(subpackage) == subpackage \o "-doc-build"

\* the literal "Optimum " of the title's split
OptimumSep == <<"O", "p", "t", "i", "m", "u", "m", " ">>

\* ShortenTitle gone wrong: split(...)[1] where there is one, the piece after the
\* first "Optimum " and not after the last
ShortenTitle_first(title) ==
    LET pieces == Split(title, OptimumSep) IN pieces[IF Len(pieces) >= 2 THEN 2 ELSE 1]

\* subpackage_toc[0]["title"].split("Optimum ")[-1]
ShortenTitle(title) ==
    LET pieces == Split(title, OptimumSep) IN pieces[Len(pieces)]

\* Reversed gone wrong: the names taken in the order supplied
Reversed_asGiven(list) == list

\* args.subpackages[::-1]
Reversed(list) == [k \in 1..Len(list) |-> list[Len(list) + 1 - k]]

\* SpliceInto gone wrong: the entry put in front
SpliceInto_front(subpackage, toc, entry) ==
    IF subpackage # "graphcore" THEN Insert(toc, 0, entry) ELSE toc

\* SpliceInto gone wrong: graphcore spliced like the others
SpliceInto_all(subpackage, toc, entry) == Insert(toc, 1, entry)

\* if subpackage != "graphcore": base_toc.insert(1, subpackage_toc[0])
SpliceInto(subpackage, toc, entry) ==
    IF subpackage # "graphcore" THEN Insert(toc, 1, entry) ELSE toc

(***************************************************************************)
(* The doc builds the runs of main are checked on.                         *)
(***************************************************************************)
Leaf(ref) == [local |-> ref, title |-> <<"p">>]

Group(title, sections) == [sections |-> sections, title |-> title]

Names ==
    {"habana", "intel", "amd", "graphcore", "neuron", "furiosa", "tpu", "executorch"}

HabanaToc ==
    << Group(OptimumSep \o <<"H", "a", "b", "a", "n", "a">>,
             << Leaf("index"),
                Group(<<"R", "e", "f">>, <<Leaf("package_reference/trainer")>>) >>) >>

\* two top-level entries, and a title that says "Optimum " twice
IntelToc ==
    << Group(<<"X", " ">> \o OptimumSep \o OptimumSep \o <<"I", "n", "t", "e", "l">>,
             <<Leaf("index")>>),
       Group(<<"M", "o", "r", "e">>, <<Leaf("extra")>>) >>

\* a title without "Optimum "
AmdToc == << Group(<<"A", "M", "D">>, <<Leaf("index"), Leaf("quickstart")>>) >>

GraphcoreToc ==
    << Group(OptimumSep \o <<"G", "r", "a", "p", "h", "c", "o", "r", "e">>,
             <<Leaf("index")>>) >>

NeuronToc ==
    << Group(OptimumSep \o <<"N", "e", "u", "r", "o", "n">>, <<Leaf("index")>>) >>

\* its second top-level entry is a leaf
TpuToc == << Group(OptimumSep \o <<"T", "P", "U">>, <<Leaf("index")>>), Leaf("faq") >>

ExecutorchToc == << Group(<<"E", "T">>, <<Leaf("index")>>) >>

Html(subpackage, below) == <<SubpackagePath(subpackage), "optimum." \o subpackage>> \o below

Fixture ==
    [d \in {SubpackagePath(n) : n \in Names} |->
        CASE d = "habana-doc-build" ->
                [html |-> << Html("habana", <<"main", "en", "index.html">>),
                             Html("habana", <<"main", "en", "package_reference",
                                              "trainer.html">>) >>,
                 toctree |-> <<HabanaToc>>]
          [] d = "intel-doc-build" ->
                [html |-> << Html("intel", <<"main", "en", "index.html">>) >>,
                 toctree |-> <<IntelToc>>]
          [] d = "amd-doc-build" ->
                [html |-> << Html("amd", <<"main", "en", "index.html">>),
                             Html("amd", <<"main", "fr", "index.html">>) >>,
                 toctree |-> <<AmdToc>>]
          [] d = "graphcore-doc-build" ->
                [html |-> << Html("graphcore", <<"main", "en", "index.html">>) >>,
                 toctree |-> <<GraphcoreToc>>]
          \* a doc build of neuron lies on disk as well
          [] d = "neuron-doc-build" ->
                [html |-> << Html("neuron", <<"main", "en", "index.html">>) >>,
                 toctree |-> <<NeuronToc>>]
          \* HTML files, and no _toctree.yml
          [] d = "furiosa-doc-build" ->
                [html |-> << Html("furiosa", <<"main", "en", "index.html">>) >>,
                 toctree |-> <<>>]
          [] d = "tpu-doc-build" ->
                [html |-> << Html("tpu", <<"main", "en", "index.html">>) >>,
                 toctree |-> <<TpuToc>>]
          \* its second HTML file lies right below the root
          [] OTHER ->
                [html |-> << Html("executorch", <<"main", "en", "index.html">>),
                             <<"executorch-doc-build", "index.html">> >>,
                 toctree |-> <<ExecutorchToc>>] ]

Home == [local |-> "index", title |-> <<"H", "o", "m", "e">>]

Overview ==
    Group(<<"O", "v", "e", "r", "v", "i", "e", "w">>, <<Leaf("index"), Leaf("quicktour")>>)

\* the Parent TOCs a run starts from
ParentTocs ==
    { <<>>, <<Home>>, <<Overview, Leaf("onnxruntime/overview")>>,
      <<Overview, Group(<<"U", "s", "e">>, <<Leaf("usage")>>), Home>> }

(***************************************************************************)
(* main: Init is the state once base_toc is loaded (line 114); one action  *)
(* per step of the loop's body, and one for the final write.               *)
(***************************************************************************)
\* the loop variable: for subpackage in args.subpackages[::-1]
Subpackage == Reversed(subpackages)[i]

SeqsUpTo(S, lo, hi) == UNION {[1..n -> S] : n \in lo..hi}

Init ==
    /\ subpackages \in SeqsUpTo(Names, 1, MaxSubs)
    /\ version = "main"
    /\ docs = Fixture
    /\ base_toc \in ParentTocs
    /\ toc_file = base_toc
    /\ toc0 = base_toc
    /\ subpackage_toc = <<>>
    /\ site = {}
    /\ opened = {}
    /\ i = 1
    /\ pc = "loop"
    /\ error = ""

\* lines 118-120
NeuronStep ==
    /\ pc = "loop" /\ i <= Len(subpackages) /\ Subpackage = "neuron"
    /\ base_toc' = add_neuron_doc(base_toc)
    /\ i' = i + 1
    /\ UNCHANGED <<subpackages, version, docs, toc_file, toc0, subpackage_toc,
                   site, opened, pc, error>>

\* CopyStep gone wrong: the _toctree.yml looked for before anything is copied
CopyStep_afterToc ==
    /\ pc = "loop" /\ i <= Len(subpackages) /\ Subpackage # "neuron"
    /\ IF docs[SubpackagePath(Subpackage)].toctree = <<>>
       THEN /\ error' = "StopIteration"
            /\ pc' = "failed"
            /\ UNCHANGED site
       ELSE LET r == rename_copy_subpackage_html_paths(Subpackage,
                         SubpackagePath(Subpackage), OptimumPath, version, docs, site)
            IN  /\ site' = r.val
                /\ error' = r.err
                /\ pc' = IF r.err = "" THEN "load" ELSE "failed"
    /\ UNCHANGED <<subpackages, version, docs, base_toc, toc_file, toc0,
                   subpackage_toc, opened, i>>

\* lines 122-130
CopyStep ==
    /\ pc = "loop" /\ i <= Len(subpackages) /\ Subpackage # "neuron"
    /\ LET r == rename_copy_subpackage_html_paths(Subpackage,
                    SubpackagePath(Subpackage), OptimumPath, version, docs, site)
       IN  /\ site' = r.val
           /\ error' = r.err
           /\ pc' = IF r.err = "" THEN "load" ELSE "failed"
    /\ UNCHANGED <<subpackages, version, docs, base_toc, toc_file, toc0,
                   subpackage_toc, opened, i>>

\* lines 133-135
LoadStep ==
    /\ pc = "load"
    /\ LET found == docs[SubpackagePath(Subpackage)].toctree
       IN  IF found = <<>>
           THEN /\ error' = "StopIteration"
                /\ pc' = "failed"
                /\ UNCHANGED <<subpackage_toc, opened>>
           ELSE /\ subpackage_toc' = found[1]
                /\ opened' = opened \cup {SubpackagePath(Subpackage)}
                /\ pc' = "rename"
                /\ UNCHANGED error
    /\ UNCHANGED <<subpackages, version, docs, base_toc, toc_file, toc0, site, i>>

\* line 137
RenameStep ==
    /\ pc = "rename"
    /\ LET r == rename_subpackage_toc(Subpackage, subpackage_toc)
       IN  /\ subpackage_toc' = r.val
           /\ error' = r.err
           /\ pc' = IF r.err = "" THEN "splice" ELSE "failed"
    /\ UNCHANGED <<subpackages, version, docs, base_toc, toc_file, toc0, site,
                   opened, i>>

\* lines 139-142
SpliceStep ==
    /\ pc = "splice"
    /\ IF subpackage_toc = <<>>
       THEN /\ error' = "IndexError"
            /\ pc' = "failed"
            /\ UNCHANGED <<subpackage_toc, base_toc, i>>
       ELSE /\ subpackage_toc' =
                   [subpackage_toc EXCEPT ![1].title = ShortenTitle(@)]
            /\ base_toc' = SpliceInto(Subpackage, base_toc, subpackage_toc'[1])
            /\ i' = i + 1
            /\ pc' = "loop"
            /\ UNCHANGED error
    /\ UNCHANGED <<subpackages, version, docs, toc_file, toc0, site, opened>>

\* lines 145-146
WriteStep ==
    /\ pc = "loop" /\ i > Len(subpackages)
    /\ toc_file' = base_toc
    /\ pc' = "done"
    /\ UNCHANGED <<subpackages, version, docs, base_toc, toc0, subpackage_toc,
                   site, opened, i, error>>

Next == NeuronStep \/ CopyStep \/ LoadStep \/ RenameStep \/ SpliceStep \/ WriteStep

Spec == Init /\ [][Next]_vars

(***************************************************************************)
(* rename_subpackage_toc on drawn TOC Trees: main at line 137, the file of  *)
(* the subpackage holding any tree of at most MaxNodes entries, each a leaf *)
(* or a group, at any depth.                                                *)
(***************************************************************************)
Refs == {"index", "api/trainer"}

\* the TOC Trees (sequences of entries) of exactly n entries
Forests[n \in 0..MaxNodes] ==
    IF n = 0 THEN {<<>>}
    ELSE UNION { { <<t>> \o rest :
                     t \in (IF k = 1 THEN {Leaf(r) : r \in Refs} ELSE {})
                           \cup {Group(<<"g">>, f) : f \in Forests[k - 1]},
                     rest \in Forests[n - k] } : k \in 1..n }

Trees == UNION {Forests[n] : n \in 0..MaxNodes}

\* the state at a line of main's loop body, first turn, for a doc build on disk
AtLine(line, s, fs, ver, toc, parent) ==
    /\ subpackages = <<s>>
    /\ version = ver
    /\ docs = fs
    /\ base_toc = parent
    /\ toc_file = parent
    /\ toc0 = parent
    /\ subpackage_toc = toc
    /\ site = IF line = "loop" THEN {}
              ELSE rename_copy_subpackage_html_paths(s, SubpackagePath(s), OptimumPath,
                                                     ver, fs, {}).val
    /\ opened = IF line \in {"rename", "splice"} THEN {SubpackagePath(s)} ELSE {}
    /\ i = 1
    /\ pc = line
    /\ error = ""

InitToc ==
    \E s \in {"habana", "amd"}, T \in Trees :
        AtLine("rename", s, [Fixture EXCEPT ![SubpackagePath(s)].toctree = <<T>>],
               "main", T, <<Home>>)

SpecToc == InitToc /\ [][RenameStep]_vars

(***************************************************************************)
(* rename_copy_subpackage_html_paths on drawn doc builds: main at line 125, *)
(* the doc build holding at most MaxFiles HTML files, each at most MaxDirs  *)
(* directories below the root.                                              *)
(***************************************************************************)
\* the directories on the way down: the package, the version, the language, ...
DirsAt(k) ==
    CASE k = 1 -> {"optimum.habana", "optimum"}
      [] k = 2 -> {"main"}
      [] k = 3 -> {"en", "fr"}
      [] k = 4 -> {"package_reference"}
      [] OTHER -> {"more"}

DirChains[n \in 0..MaxDirs] ==
    IF n = 0 THEN {<<>>}
    ELSE {Append(c, d) : c \in DirChains[n - 1], d \in DirsAt(n)}

HtmlPaths ==
    { <<"habana-doc-build">> \o c \o <<f>> :
        c \in UNION {DirChains[n] : n \in 0..MaxDirs}, f \in {"index.html", "api.html"} }

\* rglob yields the files in the order the file system lists them
HtmlLists ==
    {l \in SeqsUpTo(HtmlPaths, 0, MaxFiles) :
        \A a, b \in 1..Len(l) : a # b => l[a] # l[b]}

InitCopy ==
    \E l \in HtmlLists, ver \in {"main", "v1.13.0"} :
        AtLine("loop", "habana", [Fixture EXCEPT !["habana-doc-build"].html = l],
               ver, <<>>, <<Home>>)

SpecCopy == InitCopy /\ [][CopyStep]_vars

(***************************************************************************)
(* The splice on drawn titles: main at line 139, the first title of the     *)
(* subpackage's TOC made of at most MaxPieces pieces.                       *)
(***************************************************************************)
Pieces == {OptimumSep, <<"O", "p", "t", "i", "m", "u", "m">>, <<" ">>, <<"X">>}

RECURSIVE Flat(_)
Flat(ss) == IF ss = <<>> THEN <<>> ELSE Head(ss) \o Flat(Tail(ss))

Titles == {Flat(ps) : ps \in SeqsUpTo(Pieces, 0, MaxPieces)}

\* the subpackage's TOCs: none, one or two top-level entries
TocsTitled(t) ==
    { <<>>,
      << Group(t, <<Leaf("index"), Group(<<"g">>, <<Leaf("api/trainer")>>)>>) >>,
      << Group(t, <<Leaf("index")>>), Group(<<"M", "o", "r", "e">>, <<Leaf("extra")>>) >> }

InitSplice ==
    \E s \in {"habana", "graphcore"}, t \in Titles, parent \in ParentTocs :
        \E T \in TocsTitled(t) :
            AtLine("splice", s, [Fixture EXCEPT ![SubpackagePath(s)].toctree = <<T>>],
                   "main", rename_subpackage_toc(s, T).val, parent)

SpecSplice == InitSplice /\ [][SpliceStep]_vars

(***************************************************************************)
(* What the properties speak of, said without the script's own operators.  *)
(***************************************************************************)
\* the `local` references of the leaves of a sequence of entries, in order
RECURSIVE LeafRefs(_)
LeafRefs(entries) ==
    IF entries = <<>> THEN <<>>
    ELSE LET e == Head(entries)
         IN  (IF "local" \in DOMAIN e THEN <<e.local>> ELSE LeafRefs(e.sections))
             \o LeafRefs(Tail(entries))

\* the number of leaves of a sequence of entries
LeafCount(entries) == Len(LeafRefs(entries))

\* entry e with "s/" put before every leaf's reference
RECURSIVE Prefixed(_, _)
Prefixed(s, e) ==
    IF "local" \in DOMAIN e THEN [e EXCEPT !.local = s \o "/" \o e.local]
    ELSE [e EXCEPT !.sections = [k \in 1..Len(e.sections) |-> Prefixed(s, e.sections[k])]]

\* "Optimum " stands in title t at position p
OccursAt(t, p) ==
    /\ p + 7 <= Len(t)
    /\ SubSeq(t, p, p + 7) = <<"O", "p", "t", "i", "m", "u", "m", " ">>

\* the text after the last "Optimum " of t; t itself when there is none
AfterLast(t) ==
    IF \E p \in 1..Len(t) : OccursAt(t, p)
    THEN LET p == CHOOSE q \in 1..Len(t) :
                      OccursAt(t, q) /\ \A r \in (q + 1)..Len(t) : ~OccursAt(t, r)
         IN  SubSeq(t, p + 8, Len(t))
    ELSE t

\* the fixed entry of the redirect-only subpackage
IsRedirectEntry(e) ==
    /\ DOMAIN e = {"sections", "title", "isExpanded"}
    /\ e.isExpanded = FALSE
    /\ e.title = <<"A", "W", "S", " ", "T", "r", "a", "i", "n", "i", "u", "m", "/",
                   "I", "n", "f", "e", "r", "e", "n", "t", "i", "a">>
    /\ Len(e.sections) = 1
    /\ DOMAIN e.sections[1] = {"local", "title"}
    /\ e.sections[1].local = "docs/optimum-neuron/index"

\* the first top-level entry of the _toctree.yml of s, as it lies on disk
FirstOnDisk(s) == docs[s \o "-doc-build"].toctree[1][1]

\* the entry a subpackage other than neuron and graphcore is spliced as
StandardEntry(s) ==
    [Prefixed(s, FirstOnDisk(s)) EXCEPT !.title = AfterLast(FirstOnDisk(s).title)]

\* e is the entry of subpackage s
IsEntryOf(e, s) == IF s = "neuron" THEN IsRedirectEntry(e) ELSE e = StandardEntry(s)

\* where the HTML file h of subpackage s is to be found after relocation
Relocated(s, h) ==
    [src |-> h,
     dst |-> <<"optimum-doc-build", "optimum", version, h[4], s>> \o SubSeq(h, 5, Len(h))]

\* the HTML files of the doc build of s
HtmlOf(s) == {docs[s \o "-doc-build"].html[k] : k \in 1..Len(docs[s \o "-doc-build"].html)}

NotGraphcore(list) == SelectSeq(list, LAMBDA s : s # "graphcore")

\* the names main has dealt with, in the order supplied (main takes them last to first)
Handled == SubSeq(subpackages, Len(subpackages) + 2 - i, Len(subpackages))

\* the name main dealt with last, and the one it is at
Last == subpackages[Len(subpackages) + 2 - i]
Current == subpackages[Len(subpackages) + 1 - i]

AllOf(list) == {list[k] : k \in 1..Len(list)}

\* result is toc with one entry per name of list spliced in by main: after the first
\* entry of toc and in the order of list; when toc is empty, main's first insert (of the
\* last name) lands at the front and the others follow it
IsMerge(result, list, toc) ==
    /\ Len(result) = Len(toc) + Len(list)
    /\ toc # <<>>
       => /\ result[1] = toc[1]
          /\ \A k \in 1..Len(list) : IsEntryOf(result[1 + k], list[k])
          /\ SubSeq(result, 2 + Len(list), Len(result)) = Tail(toc)
    /\ (toc = <<>> /\ list # <<>>)
       => /\ IsEntryOf(result[1], list[Len(list)])
          /\ \A k \in 1..(Len(list) - 1) : IsEntryOf(result[1 + k], list[k])

(***************************************************************************)
(* Properties of main (under Spec).                                        *)
(***************************************************************************)
\* C1: subpackages supplied as [A, B, C], none of them graphcore or neuron: when main
\* has finished, the Parent TOC is its original first entry, then the entries of
\* A, B, C in that order, then its other original entries.
SpliceOrder ==
    (/\ pc = "done"
     /\ toc0 # <<>>
     /\ AllOf(subpackages) \cap {"graphcore", "neuron"} = {})
    => /\ Len(base_toc) = Len(toc0) + Len(subpackages)
       /\ base_toc[1] = toc0[1]
       /\ \A k \in 1..Len(subpackages) : IsEntryOf(base_toc[1 + k], subpackages[k])
       /\ SubSeq(base_toc, 2 + Len(subpackages), Len(base_toc)) = Tail(toc0)

SpliceOrderWitness ==
    /\ pc = "done"
    /\ Len(toc0) >= 2
    /\ subpackages = <<"habana", "intel", "amd">>

\* C3, as stated: after the splice of a standard subpackage its entry is at position 1
\* (the second place), whatever Parent TOC the run started from.
SpliceAtOneAlways ==
    (pc = "loop" /\ i > 1 /\ Last \notin {"graphcore", "neuron"})
    => /\ Len(base_toc) >= 2
       /\ IsEntryOf(base_toc[2], Last)
       /\ toc0 # <<>> => base_toc[1] = toc0[1]

\* C3, amended: when the Parent TOC the run started from is not empty, the entry of a
\* standard subpackage is at position 1 after its splice, and the entry that was first
\* before the run stays at position 0 throughout.
SpliceAtOne ==
    toc0 # <<>>
    => /\ base_toc[1] = toc0[1]
       /\ (pc = "loop" /\ i > 1 /\ Last \notin {"graphcore", "neuron"})
          => (Len(base_toc) >= 2 /\ IsEntryOf(base_toc[2], Last))

SpliceAtOneWitness ==
    /\ pc = "loop" /\ i = 3 /\ toc0 # <<>>
    /\ Last = "habana"
    /\ base_toc[2] = StandardEntry("habana")

\* C4: when graphcore is among the subpackages of a run that finishes, its HTML files
\* are relocated, no entry of the Parent TOC is graphcore's, and the Parent TOC is what
\* the other subpackages alone make it.
GraphcoreExcluded ==
    (pc = "done" /\ "graphcore" \in AllOf(subpackages))
    => /\ \A h \in HtmlOf("graphcore") : Relocated("graphcore", h) \in site
       /\ \A k \in 1..Len(base_toc) : base_toc[k] # StandardEntry("graphcore")
       /\ \A r \in AllOf(LeafRefs(docs["graphcore-doc-build"].toctree[1])) :
              "graphcore/" \o r \notin AllOf(LeafRefs(base_toc))
       /\ IsMerge(base_toc, NotGraphcore(subpackages), toc0)

GraphcoreExcludedWitness ==
    /\ pc = "done"
    /\ subpackages = <<"habana", "graphcore", "amd">>
    /\ Relocated("graphcore", Html("graphcore", <<"main", "en", "index.html">>)) \in site

\* C5, as stated: after neuron is dealt with, the fixed entry is at position 1.
RedirectAtOneAlways ==
    (pc = "loop" /\ i > 1 /\ Last = "neuron")
    => (Len(base_toc) >= 2 /\ IsRedirectEntry(base_toc[2]))

\* C5, amended: no file of neuron's doc build is ever relocated and its _toctree.yml is
\* never read; dealing with neuron adds exactly one top-level entry, the fixed one,
\* and it is at position 1 when the Parent TOC the run started from is not empty.
RedirectOnly ==
    /\ "neuron-doc-build" \notin opened
    /\ \A f \in site : f.src[1] # "neuron-doc-build"
    /\ (pc = "loop" /\ i > 1 /\ Last = "neuron")
       => /\ Len(base_toc) = Len(toc0) + Len(NotGraphcore(Handled))
          /\ \E k \in 1..Len(base_toc) : IsRedirectEntry(base_toc[k])
          /\ toc0 # <<>> => IsRedirectEntry(base_toc[2])

RedirectOnlyWitness ==
    /\ pc = "loop" /\ i = 3 /\ toc0 # <<>>
    /\ Last = "neuron"
    /\ IsRedirectEntry(base_toc[2])
    /\ site # {}

\* C8: a subpackage other than neuron without a _toctree.yml: the run fails there with
\* the not-found error, its HTML files are copied by then, no entry is made up for it,
\* the entries spliced before stay in memory, and the parent _toctree.yml on disk is
\* still what it was.
MissingTocFails ==
    /\ (pc \in {"rename", "splice"}) => docs[Current \o "-doc-build"].toctree # <<>>
    /\ (pc = "failed" /\ error = "StopIteration")
       => /\ docs[Current \o "-doc-build"].toctree = <<>>
          /\ toc_file = toc0
          /\ \A h \in HtmlOf(Current) : Relocated(Current, h) \in site
          /\ Len(base_toc) = Len(toc0) + Len(NotGraphcore(Handled))
          /\ \A k \in 1..Len(NotGraphcore(Handled)) :
                 \E n \in 1..Len(base_toc) :
                     IsEntryOf(base_toc[n], NotGraphcore(Handled)[k])

MissingTocFailsWitness ==
    /\ pc = "failed" /\ error = "StopIteration"
    /\ subpackages = <<"furiosa", "habana">>
    /\ base_toc # toc0
    /\ Relocated("furiosa", Html("furiosa", <<"main", "en", "index.html">>)) \in site

\* C10: a run that finishes, started from a Parent TOC that is not empty: the final TOC
\* is the original first entry, then one entry per supplied name other than graphcore,
\* in the order supplied, then the other original entries in their order; it is what
\* is written to disk.
OriginalsKept ==
    (pc = "done" /\ toc0 # <<>>)
    => /\ IsMerge(base_toc, NotGraphcore(subpackages), toc0)
       /\ Len(base_toc) = Len(toc0) + Cardinality({k \in 1..Len(subpackages) :
                                                     subpackages[k] # "graphcore"})
       /\ toc_file = base_toc

OriginalsKeptWitness ==
    /\ pc = "done"
    /\ Len(toc0) = 3
    /\ subpackages = <<"neuron", "graphcore", "neuron">>

(***************************************************************************)
(* Properties of rename_subpackage_toc (under SpecToc).                     *)
(***************************************************************************)
\* the tree rename_subpackage_toc was called on: the subpackage's file, as on disk
TocGiven == docs[subpackages[1] \o "-doc-build"].toctree[1]

\* C2: for every TOC Tree, leaves at the top level included, the call returns, and
\* then the leaves are as many as before and each reference is "s/" and the reference
\* it was: none missed, none prefixed twice.
RenameVisitsAll ==
    pc # "rename"
    => /\ error = ""
       /\ LeafCount(subpackage_toc) = LeafCount(TocGiven)
       /\ \A k \in 1..LeafCount(TocGiven) :
              LeafRefs(subpackage_toc)[k] = subpackages[1] \o "/" \o LeafRefs(TocGiven)[k]

\* What the code does instead: it raises KeyError exactly when a top-level entry is a
\* leaf; when none is, it returns and the tree is the given one with every leaf
\* prefixed once.
RenameGroupsOnly ==
    pc # "rename"
    => IF \E k \in 1..Len(TocGiven) : "local" \in DOMAIN TocGiven[k]
       THEN error = "KeyError" /\ pc = "failed"
       ELSE /\ error = "" /\ pc = "splice"
            /\ subpackage_toc =
                   [k \in 1..Len(TocGiven) |-> Prefixed(subpackages[1], TocGiven[k])]

(***************************************************************************)
(* Properties of rename_copy_subpackage_html_paths (under SpecCopy).        *)
(***************************************************************************)
\* C6: every copy made is of a matched HTML file, to
\* <dest>/optimum/<version>/<language>/<subpackage>/<relative-path> with <language> the
\* segment at position 3 of its path and <relative-path> the segments after it; when
\* the call returns, every matched file has been copied there; no HTML file, no copy
\* and no error.
CopiedWhereStated ==
    pc # "loop"
    => /\ \A f \in site :
              /\ f.src \in HtmlOf("habana")
              /\ Len(f.src) >= 4
              /\ f.dst = <<"optimum-doc-build", "optimum", version, f.src[4], "habana">>
                         \o SubSeq(f.src, 5, Len(f.src))
       /\ error = ""
          => \A h \in HtmlOf("habana") :
                 Len(h) >= 4 /\ \E f \in site : f.dst = Relocated("habana", h).dst
       /\ (\A h \in HtmlOf("habana") : Len(h) >= 4) => error = ""
       /\ HtmlOf("habana") = {} => (site = {} /\ error = "" /\ pc = "load")

CopiedWhereStatedWitness ==
    /\ pc = "load"
    /\ version = "v1.13.0"
    /\ [src |-> <<"habana-doc-build", "optimum.habana", "main", "fr",
                  "package_reference", "api.html">>,
        dst |-> <<"optimum-doc-build", "optimum", "v1.13.0", "fr", "habana",
                  "package_reference", "api.html">>] \in site
    /\ Cardinality(site) = 2

\* C7: a matched HTML file that does not lie below a language directory at position 3
\* makes the call fail, and no copy has the file's own name as its <language> or an
\* empty <relative-path>.
ShallowFails ==
    pc # "loop"
    => /\ (\E h \in HtmlOf("habana") : Len(h) < 5) => error # ""
       /\ \A f \in site : f.dst[4] # f.src[Len(f.src)] /\ Len(f.dst) > 5

(***************************************************************************)
(* Properties of the splice (under SpecSplice).                             *)
(***************************************************************************)
\* C9: after the splice the subpackage's first title is the text after the last
\* "Optimum " of the title on disk, and that title itself when it has no "Optimum ";
\* the Parent TOC has gained one entry, made of that title and the first entry's
\* rewritten sections, and none of the subpackage's further top-level entries
\* (graphcore: it has gained none).
TitleShortened ==
    (pc = "loop" /\ i > 1)
    => LET onDisk == FirstOnDisk(Last)
       IN  /\ subpackage_toc[1].title = AfterLast(onDisk.title)
           /\ (\A p \in 1..Len(onDisk.title) : ~OccursAt(onDisk.title, p))
              => subpackage_toc[1].title = onDisk.title
           /\ IsMerge(base_toc, NotGraphcore(<<Last>>), toc0)
           /\ Last # "graphcore"
              => \E n \in 1..Len(base_toc) :
                     /\ base_toc[n].title = AfterLast(onDisk.title)
                     /\ "sections" \in DOMAIN base_toc[n]
                     /\ base_toc[n].sections = Prefixed(Last, onDisk).sections
           /\ \A k \in 2..Len(subpackage_toc) :
                  \A n \in 1..Len(base_toc) : base_toc[n] # subpackage_toc[k]

TitleShortenedWitness ==
    /\ pc = "loop" /\ i = 2
    /\ Last = "habana"
    /\ Len(subpackage_toc) = 2
    /\ Len(base_toc) >= 2
    /\ FirstOnDisk("habana").title = OptimumSep \o OptimumSep \o <<"X">>
    /\ base_toc[2].title = <<"X">>

====
